---- MODULE Spec2Model ----
(***************************************************************************)
(* Model of src/app.py: the word-frequency table built once by load_data   *)
(* and the Dash callback update_table that filters it.                     *)
(*                                                                         *)
(* Text is a sequence of one-character strings.  Two input files are fixed *)
(* at startup; load_data reads them once; update_table is then invoked     *)
(* with arbitrary search terms and checklist values.                       *)
(***************************************************************************)
EXTENDS Naturals, Sequences, FiniteSets

VARIABLES pc, freq_file, vocab_file, df, wk_vocab, search_term, show_wk, result

vars == <<pc, freq_file, vocab_file, df, wk_vocab, search_term, show_wk, result>>

\* ------------------------------------------------------------------ bounds
\* most data lines of data/clean/word_frequency.csv
MaxRows == 2
\* most lines of data/clean/wk_vocab.txt
MaxLines == 2

\* ------------------------------------------------------------------ values
\* Python's None (search input never typed in, checklist without a value)
None == <<"None">>
\* pandas' missing value, as read_csv puts it in an object column
NaN == <<"NaN">>

SeqUpTo(S, n) == UNION {[1..k -> S] : k \in 0..n}

\* cells of the word column as they stand in the csv text
WordCells == { <<>>, <<"a">>, <<"A", "b">> }
\* lines of the vocabulary file (without their line terminator)
VocabLines == { <<>>, <<" ">>, <<" ", "a">>, <<"A", "b", " ">> }
\* what the search box can hold: nothing yet, the empty text, plain text,
\* text in the other case, and text with characters the pattern syntax reads
SearchTerms == { None, <<>>, <<"a">>, <<"B">>, <<"a", "b">>, <<"b", "a">>,
                 <<".">>, <<"a", ".">>, <<"(">> }
\* what the checklist can hold: its one option ticked or not, or no value
ShowValues == { None, <<>>, <<"show">> }

\* the frequency csv: missing, or a header (always with a word column, with or
\* without a Rank column of its own) and the word cell of each line
FreqFiles ==
  { [exists |-> FALSE, has_rank_col |-> FALSE, cells |-> <<>>] } \cup
  [exists : {TRUE}, has_rank_col : BOOLEAN, cells : SeqUpTo(WordCells, MaxRows)]

VocabFiles ==
  { [exists |-> FALSE, lines |-> <<>>] } \cup
  [exists : {TRUE}, lines : SeqUpTo(VocabLines, MaxLines)]

\* ------------------------------------------------------------- text helpers
Whitespace == { " " }

RECURSIVE lstrip(_)
lstrip(s) == IF s # <<>> /\ Head(s) \in Whitespace THEN lstrip(Tail(s)) ELSE s

RECURSIVE rstrip(_)
rstrip(s) ==
  IF s # <<>> /\ s[Len(s)] \in Whitespace THEN rstrip(SubSeq(s, 1, Len(s) - 1)) ELSE s

\* str.strip()
strip(s) == rstrip(lstrip(s))

\* simple case folding of one character (re.IGNORECASE)
lower(c) == IF c = "A" THEN "a" ELSE IF c = "B" THEN "b" ELSE c

DigitChars == <<"0", "1", "2", "3", "4", "5", "6", "7", "8", "9">>

RECURSIVE decimal(_)
decimal(n) ==
  IF n < 10 THEN <<DigitChars[n + 1]>>
  ELSE decimal(n \div 10) \o <<DigitChars[(n % 10) + 1]>>

three_digits(n) ==
  <<DigitChars[(n \div 100) + 1], DigitChars[((n \div 10) % 10) + 1],
    DigitChars[(n % 10) + 1]>>

\* format(n, ","): decimal digits in groups of three
RECURSIVE format_thousands(_)
format_thousands(n) ==
  IF n < 1000 THEN decimal(n)
  ELSE format_thousands(n \div 1000) \o <<",">> \o three_digits(n % 1000)

\* the count line of the page: f"Showing {len(filtered_df):,} words"
ShowingPrefix == <<"S", "h", "o", "w", "i", "n", "g", " ">>
WordsSuffix == <<" ", "w", "o", "r", "d", "s">>

DigitValue(c) == CHOOSE d \in 0..9 : DigitChars[d + 1] = c

\* the number a count line shows: its digits read left to right, separators dropped
RECURSIVE ReadNumber(_, _)
ReadNumber(text, acc) ==
  IF text = <<>> THEN acc
  ELSE IF \E d \in 0..9 : DigitChars[d + 1] = Head(text)
       THEN ReadNumber(Tail(text), acc * 10 + DigitValue(Head(text)))
       ELSE ReadNumber(Tail(text), acc)

ShownCount(text) == ReadNumber(text, 0)

\* --------------------------------------------------------------- load_data
\* pd.read_csv: one frame row per data line.  An empty cell reads as NaN; in a
\* file whose only column is word, a line with an empty cell is a blank line,
\* which read_csv skips.  A Rank column of the file is read like any other (its
\* values stand here as 0).
parse_cell(c) == IF c = <<>> THEN NaN ELSE c

kept_cells(file) ==
  IF file.has_rank_col THEN file.cells
  ELSE SelectSeq(file.cells, LAMBDA c : c # <<>>)

read_csv(file) ==
  LET cells == kept_cells(file) IN
  [i \in 1..Len(cells) |->
     IF file.has_rank_col
     THEN [word |-> parse_cell(cells[i]), Rank |-> 0]
     ELSE [word |-> parse_cell(cells[i])]]

\* variant of assign_rank that leaves a Rank column of the file in place
assign_rank_keeping(frame) ==
  [i \in 1..Len(frame) |->
     [word |-> frame[i].word,
      Rank |-> IF "Rank" \in DOMAIN frame[i] THEN frame[i].Rank ELSE i]]

\* df['Rank'] = range(1, len(df) + 1): sets the column, new or not
assign_rank(frame) ==
  [i \in 1..Len(frame) |-> [word |-> frame[i].word, Rank |-> i]]

\* the try/except around open("data/clean/wk_vocab.txt"): the stripped lines of
\* the file, or the empty set when the file is not there
read_wk_vocab(file) ==
  IF file.exists
  THEN { strip(file.lines[i]) : i \in 1..Len(file.lines) }
  ELSE {}

\* df['in_wk'] = df['word'].isin(wk_vocab); return df[['Rank', 'word', 'in_wk']]
mark_in_wk(frame, vocab) ==
  [i \in 1..Len(frame) |->
     [Rank |-> frame[i].Rank, word |-> frame[i].word,
      in_wk |-> frame[i].word \in vocab]]

load_data(ffile, vfile) ==
  mark_in_wk(assign_rank(read_csv(ffile)), read_wk_vocab(vfile))

\* variant of load_outcome without the except FileNotFoundError clause
load_outcome_uncaught(ffile, vfile) ==
  IF ffile.exists /\ vfile.exists THEN "ready" ELSE "fatal"

\* how module import ends: read_csv raises on a missing frequency file, the
\* missing vocabulary file is caught
load_outcome(ffile, vfile) ==
  IF ffile.exists THEN "ready" ELSE "fatal"

\* ------------------------------------------------------------ update_table
\* not x, for a str, a list or None
falsy(x) == x = None \/ x = <<>>

\* re.compile(pat) raises re.error: a "(" that no ")" closes
re_error(pat) ==
  \E i \in 1..Len(pat) :
     pat[i] = "(" /\ ~ \E j \in (i + 1)..Len(pat) : pat[j] = ")"

\* the compiled pattern matches w from position k on: "." stands for any
\* character, every other character of these patterns for itself, case ignored
match_at(pat, w, k) ==
  /\ k + Len(pat) - 1 <= Len(w)
  /\ \A j \in 1..Len(pat) :
        pat[j] = "." \/ lower(pat[j]) = lower(w[k + j - 1])

re_search(pat, w) == \E k \in 1..Len(w) : match_at(pat, w, k)

\* Series.str.contains(pat, case=False, na=False), regex=True by default
str_contains(w, pat) == IF w = NaN THEN FALSE ELSE re_search(pat, w)

\* lines 195-199: filtered_df
filtered_rows(d, term) ==
  IF falsy(term) THEN d
  ELSE SelectSeq(d, LAMBDA r : str_contains(r.word, term))

\* DataFrame.to_dict('records')
to_dict_records(frame) ==
  [i \in 1..Len(frame) |->
     [Rank |-> frame[i].Rank, word |-> frame[i].word, in_wk |-> frame[i].in_wk]]

\* variant of match_count that counts the whole table, len(df)
match_count_of_table(filtered_df) == Len(df)

\* len(filtered_df) in the count line
match_count(filtered_df) == Len(filtered_df)

count_text(filtered_df) ==
  ShowingPrefix \o format_thousands(match_count(filtered_df)) \o WordsSuffix

\* not show_wk or 'show' not in show_wk
highlight_disabled(sw) ==
  falsy(sw) \/ ~ \E i \in 1..Len(sw) : sw[i] = "show"

\* what one invocation hands to Dash: a (rowData, children) pair, None when
\* the function ends without a return statement, or the exception it raised
Pending == [kind |-> "pending", rows |-> <<>>, text |-> <<>>]
ReturnedNone == [kind |-> "none", rows |-> <<>>, text |-> <<>>]
Raised == [kind |-> "error", rows |-> <<>>, text |-> <<>>]

update_table(d, term, sw) ==
  IF ~ falsy(term) /\ re_error(term) THEN Raised
  ELSE LET filtered_df == filtered_rows(d, term) IN
       IF highlight_disabled(sw)
       THEN [kind |-> "ok", rows |-> to_dict_records(filtered_df),
             text |-> count_text(filtered_df)]
       ELSE ReturnedNone

\* variant of df_after_update in which the filter result is bound to the global df
df_rebound(d, term) == IF re_error(term) THEN d ELSE filtered_rows(d, term)

\* the module-level df after an invocation: update_table binds only locals
df_after_update(d, term) == d

\* ------------------------------------------------------------------ actions
Init ==
  /\ pc = "start"
  /\ freq_file \in FreqFiles
  /\ vocab_file \in VocabFiles
  /\ df = <<>>
  /\ wk_vocab = {}
  /\ search_term = None
  /\ show_wk = <<"show">>
  /\ result = Pending

\* line 79, df = load_data(), with both reads succeeding or the second caught
LoadData ==
  /\ pc = "start"
  /\ load_outcome(freq_file, vocab_file) = "ready"
  /\ pc' = "ready"
  /\ wk_vocab' = read_wk_vocab(vocab_file)
  /\ df' = load_data(freq_file, vocab_file)
  /\ UNCHANGED <<freq_file, vocab_file, search_term, show_wk, result>>

\* line 79 when load_data raises: the import fails and nothing is served
LoadDataFails ==
  /\ pc = "start"
  /\ load_outcome(freq_file, vocab_file) = "fatal"
  /\ pc' = "fatal"
  /\ UNCHANGED <<freq_file, vocab_file, df, wk_vocab, search_term, show_wk, result>>

\* the callback of lines 188-206, fired with the two inputs' current values
UpdateTable ==
  /\ pc = "ready"
  /\ \E term \in SearchTerms, sw \in ShowValues :
        /\ search_term' = term
        /\ show_wk' = sw
        /\ result' = update_table(df, term, sw)
        /\ df' = df_after_update(df, term)
  /\ UNCHANGED <<pc, freq_file, vocab_file, wk_vocab>>

Next == LoadData \/ LoadDataFails \/ UpdateTable

Spec == Init /\ [][Next]_vars

\* ------------------------------------------------------------------ claims
\* an invocation of update_table has finished in this state
Invoked == pc = "ready" /\ result.kind # "pending"

\* w contains s as a literal substring, case ignored (a missing word contains nothing)
literal_contains(w, s) ==
  /\ w # NaN
  /\ \E k \in 1..Len(w) :
        /\ k + Len(s) - 1 <= Len(w)
        /\ \A j \in 1..Len(s) : lower(s[j]) = lower(w[k + j - 1])

\* the trimmed lines of the vocabulary file that are not blank
NonBlankTrimmed(file) ==
  { strip(file.lines[i]) :
      i \in { j \in 1..Len(file.lines) : strip(file.lines[j]) # <<>> } }

EmptyVocabFile == [exists |-> TRUE, lines |-> <<>>]

\* C1: for every table and search term an invocation produces a (rows, count)
\* result, and it is the result every other checklist value would have produced
\* for the same term: the highlight flag changes neither rows nor count.
C1_HighlightIndependent ==
  Invoked =>
    /\ result.kind = "ok"
    /\ \A sw \in ShowValues : update_table(df, search_term, sw) = result

\* C2: for a non-empty search term the returned rows are exactly the rows of
\* the table, in table order, whose word contains the term as a literal
\* case-insensitive substring.
C2_LiteralSubstring ==
  (Invoked /\ result.kind = "ok" /\ ~ falsy(search_term)) =>
    result.rows =
      to_dict_records(SelectSeq(df, LAMBDA r : literal_contains(r.word, search_term)))

\* C3: with an empty or absent search term an invocation returns every row of
\* the table in table order and a count equal to the table's length.
C3_EmptyTermAllRows ==
  (Invoked /\ falsy(search_term)) =>
    /\ result.kind = "ok"
    /\ result.rows = to_dict_records(df)
    /\ ShownCount(result.text) = Len(df)

\* C4: the count shown in the text "Showing {matchCount} words" equals the
\* number of rows returned in the same result.
C4_CountMatchesRows ==
  result.kind = "ok" =>
    /\ result.text = ShowingPrefix \o format_thousands(Len(result.rows)) \o WordsSuffix
    /\ ShownCount(result.text) = Len(result.rows)

\* C4 witness: a search narrowed a two-row table to one row and reported it.
C4_Witness ==
  /\ result.kind = "ok"
  /\ ~ falsy(search_term)
  /\ Len(df) = 2
  /\ Len(result.rows) = 1

\* C5: no invocation ends in an error or without a result, whatever the table,
\* the search text and the checklist value; no match gives an empty row list
\* with a count of 0.
C5_NeverFails ==
  Invoked =>
    /\ result.kind = "ok"
    /\ (result.rows = <<>> => ShownCount(result.text) = 0)

\* C6: after load_data the Rank values are 1..n in the order of the n data
\* rows of the frequency file, whatever columns the file has; a header-only
\* file gives a table of length 0.
C6_RanksContiguous ==
  pc = "ready" =>
    /\ Len(df) = Len(kept_cells(freq_file))
    /\ \A i \in 1..Len(df) :
          /\ df[i].Rank = i
          /\ df[i].word = parse_cell(kept_cells(freq_file)[i])
    /\ (freq_file.cells = <<>> => df = <<>>)

\* C6 witness: a file that brings a Rank column of its own was loaded with two rows.
C6_Witness ==
  /\ pc = "ready"
  /\ freq_file.has_rank_col
  /\ Len(df) = 2

\* C7: the known-vocabulary set is exactly the trimmed non-blank lines of the
\* vocabulary file (the empty string is never a member), and a row's in_wk is
\* true iff its word is in that set.
C7_VocabSet ==
  pc = "ready" =>
    /\ wk_vocab = NonBlankTrimmed(vocab_file)
    /\ <<>> \notin wk_vocab
    /\ \A i \in 1..Len(df) : df[i].in_wk <=> df[i].word \in wk_vocab

\* C8: with the vocabulary file absent load_data completes, every row has
\* in_wk = false, and the table is the one an empty vocabulary file gives.
C8_AbsentVocab ==
  (pc # "start" /\ freq_file.exists /\ ~ vocab_file.exists) =>
    /\ pc = "ready"
    /\ \A i \in 1..Len(df) : ~ df[i].in_wk
    /\ df = load_data(freq_file, EmptyVocabFile)

\* C8 witness: startup finished without the vocabulary file and the table has rows.
C8_Witness ==
  /\ pc = "ready"
  /\ ~ vocab_file.exists
  /\ Len(df) >= 1

\* C9: after any invocations df is the table load_data built at startup, and
\* the result on display is the one update_table computes from that table and
\* the invocation's own arguments.
C9_TableImmutable ==
  pc = "ready" =>
    /\ df = load_data(freq_file, vocab_file)
    /\ Invoked =>
         result = update_table(load_data(freq_file, vocab_file), search_term, show_wk)

\* C9 witness: an invocation returned fewer rows than the table, which still
\* has all of them.
C9_Witness ==
  /\ Invoked
  /\ result.kind = "ok"
  /\ Len(result.rows) < Len(df)
  /\ df = load_data(freq_file, vocab_file)

\* C10: with highlighting disabled every returned row has in_wk = False.
C10_DisabledForcesFalse ==
  (Invoked /\ result.kind = "ok" /\ highlight_disabled(show_wk)) =>
    \A i \in 1..Len(result.rows) : ~ result.rows[i].in_wk

====
